---------------------------- MODULE Spec2Model ----------------------------
(***************************************************************************)
(* Model of src/main.py: the Bitcoin chart's indicator functions, the      *)
(* halving-signal generator, the nearest-candlestick resolver and the      *)
(* annotation overlay of create_tradingview_chart.                         *)
(*                                                                         *)
(* Numbers.  A float is modelled as an exact fraction <<n, d>> with d > 0; *)
(* <<0, 0>> is NaN, <<1, 0>> and <<-1, 0>> are +inf and -inf.  Rounding of *)
(* float64 is not modelled.                                                *)
(* Time.  An instant is a number of hours; a pandas Timestamp is a record  *)
(* [wall, tz] of its wall-clock hours and its time zone ("" = tz-naive).   *)
(***************************************************************************)
EXTENDS Integers, Sequences, FiniteSets, TLC

VARIABLES
    df,         \* the DataFrame object the caller holds: [index, tz, cols]
    df_before,  \* that object's content when calculate_indicators was last entered
    outcome,    \* how the last calculate_indicators call ended
    calls,      \* number of calculate_indicators calls made on df
    signals,    \* the dictionary returned by the last get_bitcoin_halving_signals call
    fig,        \* the figure of the last create_tradingview_chart call
    target,     \* the target_date last passed to find_nearest_candlestick
    aligned,    \* the timestamp find_nearest_candlestick returned for it
    series,     \* the series last passed to calculate_ema
    period,     \* the period last passed to calculate_ema
    ema,        \* the series calculate_ema returned
    multiplier, \* the std_dev last passed to calculate_bollinger_bands
    bands,      \* the bands calculate_bollinger_bands returned
    bars,       \* the [high, low, close] last passed to calculate_stochastic
    periods,    \* the [k_period, d_period, smooth_k] passed with them
    stoch,      \* the pair of series calculate_stochastic returned
    now,           \* the date datetime.now() last gave
    start_picker,  \* the date of the start-date-picker
    end_picker,    \* the date of the end-date-picker
    store,         \* the data of the active-preset-store
    className,     \* the className of the ten preset buttons, in layout order
    pending,       \* the callbacks Dash has still to run for changed inputs
    clicked,       \* the id of the preset button clicked last
    preset_result, \* how the last update_date_range_from_preset call ended
    preset_before, \* the pickers' dates and the store when that call began
    fetch,         \* what fetch_bitcoin_data gave the last update_chart call
    fetched,       \* whether that call did call fetch_bitcoin_data
    chart,         \* how the last update_chart call ended
    pc          \* where the program is

\* the state of calculate_bollinger_bands' and calculate_stochastic's callers
bandVars == <<multiplier, bands>>

stochVars == <<bars, periods, stoch>>

\* the state of the Dash application
presetVars == <<now, start_picker, end_picker, store, className, clicked,
                preset_result, preset_before>>

chartVars == <<fetch, fetched, chart>>

appVars == <<presetVars, pending, chartVars>>

vars == <<df, df_before, outcome, calls, signals, fig, target, aligned,
          series, period, ema, bandVars, stochVars, appVars, pc>>

(***************************************************************************)
(* Bounds of the model.                                                    *)
(***************************************************************************)
MaxBars == 3        \* most bars of a fetched series
MaxTick == 5        \* bar timestamps of the resolver's inputs lie in 0..MaxTick
MaxLen == 3         \* longest series passed to calculate_ema
MaxSpan == 3        \* largest period passed to calculate_ema
MaxPrice == 3       \* prices drawn as inputs lie in 1..MaxPrice
MaxCalls == 2       \* most calls of calculate_indicators on one table
PadBars == 19       \* bars of unchanged price that lead the long tables
MaxBandLen == 5     \* longest series passed to calculate_bollinger_bands
MaxWindow == 3      \* largest period passed to calculate_bollinger_bands
MaxStochLen == 3    \* most bars of any prices passed to calculate_stochastic

(***************************************************************************)
(* Float arithmetic on exact fractions.                                    *)
(***************************************************************************)
Abs(x) == IF x < 0 THEN -x ELSE x

Sign(x) == IF x < 0 THEN -1 ELSE IF x > 0 THEN 1 ELSE 0

RECURSIVE GCD(_, _)
GCD(a, b) == IF b = 0 THEN a ELSE GCD(b, a % b)

NaN == <<0, 0>>

Inf == <<1, 0>>

Frac(n, d) ==
    IF d = 0 THEN <<Sign(n), 0>>
    ELSE LET g == GCD(Abs(n), Abs(d))
             s == IF d < 0 THEN -1 ELSE 1
         IN  <<(s * n) \div g, (s * d) \div g>>

Num(n) == <<n, 1>>

IsNaN(x) == x = NaN

IsFinite(x) == x[2] > 0

FAdd(x, y) ==
    IF IsNaN(x) \/ IsNaN(y) THEN NaN
    ELSE IF IsFinite(x) /\ IsFinite(y)
    THEN LET g == GCD(x[2], y[2])
         IN  Frac(x[1] * (y[2] \div g) + y[1] * (x[2] \div g), x[2] * (y[2] \div g))
    ELSE IF IsFinite(x) THEN y
    ELSE IF IsFinite(y) THEN x
    ELSE IF x = y THEN x ELSE NaN

FNeg(x) == <<-x[1], x[2]>>

FSub(x, y) == FAdd(x, FNeg(y))

FMul(x, y) ==
    IF IsNaN(x) \/ IsNaN(y) THEN NaN
    ELSE IF IsFinite(x) /\ IsFinite(y)
    THEN LET g == GCD(Abs(x[1]), y[2])
             h == GCD(Abs(y[1]), x[2])
         IN  Frac((x[1] \div g) * (y[1] \div h), (x[2] \div h) * (y[2] \div g))
    ELSE <<Sign(x[1]) * Sign(y[1]), 0>>

FDiv(x, y) ==
    IF IsNaN(x) \/ IsNaN(y) THEN NaN
    ELSE IF IsFinite(x) /\ IsFinite(y)
    THEN (IF y[1] = 0 THEN <<Sign(x[1]), 0>>
          ELSE FMul(x, <<Sign(y[1]) * y[2], Abs(y[1])>>))
    ELSE IF IsFinite(y) THEN <<x[1] * (IF y[1] < 0 THEN -1 ELSE 1), 0>>
    ELSE IF IsFinite(x) THEN Num(0)
    ELSE NaN

\* x < y on floats: false when either side is NaN
FLt(x, y) ==
    /\ ~IsNaN(x)
    /\ ~IsNaN(y)
    /\ IF IsFinite(x) /\ IsFinite(y) THEN FAdd(x, FNeg(y))[1] < 0
       ELSE IF IsFinite(x) THEN y[1] > 0
       ELSE IF IsFinite(y) THEN x[1] < 0
       ELSE x[1] < y[1]

(***************************************************************************)
(* datetime and timedelta (the proleptic Gregorian calendar of Python's    *)
(* datetime module).  A datetime at midnight is a record [year, month,     *)
(* day].                                                                   *)
(***************************************************************************)
IsLeap(y) == y % 4 = 0 /\ (y % 100 # 0 \/ y % 400 = 0)

DaysInMonth(y, m) ==
    IF m = 2 THEN (IF IsLeap(y) THEN 29 ELSE 28)
    ELSE IF m \in {4, 6, 9, 11} THEN 30 ELSE 31

RECURSIVE DaysBeforeMonth(_, _)
DaysBeforeMonth(y, m) ==
    IF m = 1 THEN 0 ELSE DaysBeforeMonth(y, m - 1) + DaysInMonth(y, m - 1)

DaysBeforeYear(y) ==
    LET y1 == y - 1
    IN  y1 * 365 + (y1 \div 4) - (y1 \div 100) + (y1 \div 400)

datetime(y, m, d) == [year |-> y, month |-> m, day |-> d]

toordinal(dt) ==
    DaysBeforeYear(dt.year) + DaysBeforeMonth(dt.year, dt.month) + dt.day

fromordinal(ord) ==
    LET n0 == ord - 1
        n400 == n0 \div 146097
        r400 == n0 % 146097
        n100 == r400 \div 36524
        r100 == r400 % 36524
        n4 == r100 \div 1461
        r4 == r100 % 1461
        n1 == r4 \div 365
        r1 == r4 % 365
        y == n400 * 400 + 1 + n100 * 100 + n4 * 4 + n1
    IN  IF n1 = 4 \/ n100 = 4 THEN datetime(y - 1, 12, 31)
        ELSE LET m == CHOOSE k \in 1..12 :
                         /\ DaysBeforeMonth(y, k) <= r1
                         /\ r1 < DaysBeforeMonth(y, k) + DaysInMonth(y, k)
             IN  datetime(y, m, r1 - DaysBeforeMonth(y, m) + 1)

\* dt + timedelta(days=n)
PlusDays(dt, n) == fromordinal(toordinal(dt) + n)

(***************************************************************************)
(* pandas Timestamps.                                                      *)
(***************************************************************************)
NoTz == ""

TimeZones == {NoTz, "UTC", "Etc/GMT-1"}

TzOffset(tz) == IF tz = "Etc/GMT-1" THEN 1 ELSE 0

Timestamp(w, tz) == [wall |-> w, tz |-> tz]

\* pd.Timestamp(datetime): the tz-naive instant of midnight of that day
TimestampOf(dt) == Timestamp(toordinal(dt) * 24, NoTz)

\* Timestamp.tz_localize(tz): the same wall clock, in tz (tz = None drops the zone)
tz_localize(ts, tz) == Timestamp(ts.wall, tz)

\* the value the index's ordering compares
Instant(ts) == ts.wall - TzOffset(ts.tz)

(***************************************************************************)
(* get_bitcoin_halving_signals (lines 152-186).                            *)
(***************************************************************************)
halving_dates ==
    << datetime(2012, 11, 28), datetime(2016, 7, 9),
       datetime(2020, 5, 11), datetime(2024, 4, 20) >>

\* the loop of lines 171-180 after k iterations: one entry appended per halving
RECURSIVE SignalsAfter(_, _)
SignalsAfter(k, days) ==
    IF k = 0 THEN << >>
    ELSE Append(SignalsAfter(k - 1, days), PlusDays(halving_dates[k], days))

\* a slip the comments of lines 172 and 177 invite: months of 30 days
get_bitcoin_halving_signals_months ==
    [halvings |-> halving_dates,
     top_signals |-> SignalsAfter(Len(halving_dates), 17 * 30),
     bottom_signals |-> SignalsAfter(Len(halving_dates), 29 * 30)]

\* the two day counts of lines 174 and 179 taken for each other
get_bitcoin_halving_signals_swapped ==
    [halvings |-> halving_dates,
     top_signals |-> SignalsAfter(Len(halving_dates), 883),
     bottom_signals |-> SignalsAfter(Len(halving_dates), 518)]

get_bitcoin_halving_signals ==
    [halvings |-> halving_dates,
     top_signals |-> SignalsAfter(Len(halving_dates), 518),
     bottom_signals |-> SignalsAfter(Len(halving_dates), 883)]

(***************************************************************************)
(* The DataFrame: index (wall-clock hours of each bar, strictly            *)
(* increasing), tz (the index's time zone) and cols (column name ->        *)
(* sequence of floats, one per bar).                                       *)
(***************************************************************************)
NBars(d) == Len(d.index)

Columns(d) == DOMAIN d.cols

\* df.index[p] for a 0-based position p; a negative p counts from the end
IndexAt(d, p) == Timestamp(d.index[(p % NBars(d)) + 1], d.tz)

RECURSIVE FMinOf(_, _)
FMinOf(s, k) ==
    IF k = 0 THEN NaN
    ELSE LET m == FMinOf(s, k - 1)
         IN  IF IsNaN(s[k]) THEN m
             ELSE IF IsNaN(m) \/ FLt(s[k], m) THEN s[k] ELSE m

RECURSIVE FMaxOf(_, _)
FMaxOf(s, k) ==
    IF k = 0 THEN NaN
    ELSE LET m == FMaxOf(s, k - 1)
         IN  IF IsNaN(s[k]) THEN m
             ELSE IF IsNaN(m) \/ FLt(m, s[k]) THEN s[k] ELSE m

\* Series.min() and Series.max(): NaN entries are skipped
SeriesMin(s) == FMinOf(s, Len(s))

SeriesMax(s) == FMaxOf(s, Len(s))

(***************************************************************************)
(* find_nearest_candlestick (lines 383-398) and the Index.get_indexer      *)
(* call it makes.  Positions are 0-based, -1 is "no such position".        *)
(***************************************************************************)
\* get_indexer(method="pad"): the last bar at or before t
PadIndexer(d, t) ==
    LET S == {i \in 1..NBars(d) : Instant(Timestamp(d.index[i], d.tz)) <= Instant(t)}
    IN  IF S = {} THEN -1 ELSE (CHOOSE i \in S : \A j \in S : j <= i) - 1

\* get_indexer(method="backfill"): the first bar at or after t
BackfillIndexer(d, t) ==
    LET S == {i \in 1..NBars(d) : Instant(Timestamp(d.index[i], d.tz)) >= Instant(t)}
    IN  IF S = {} THEN -1 ELSE (CHOOSE i \in S : \A j \in S : i <= j) - 1

\* |t - index[p]|; position -1 reads the last bar, as numpy indexing does
Distance(d, t, p) == Abs(Instant(t) - Instant(IndexAt(d, p)))

\* the resolver with ties given to the earlier bar
NearestIndexerLeftTies(d, t) ==
    LET left == PadIndexer(d, t)
        right == BackfillIndexer(d, t)
    IN  IF Distance(d, t, left) <= Distance(d, t, right) \/ right = -1
        THEN left ELSE right

\* the resolver without the comparison of distances
NearestIndexerPad(d, t) == PadIndexer(d, t)

\* get_indexer(method="nearest") on an increasing index (line 397)
NearestIndexer(d, t) ==
    LET left == PadIndexer(d, t)
        right == BackfillIndexer(d, t)
    IN  IF Distance(d, t, left) < Distance(d, t, right) \/ right = -1
        THEN left ELSE right

\* lines 386-394: the target in the index's representation
NormalizeTarget(d, target_date) ==
    IF d.tz # NoTz
    THEN (IF target_date.tz = NoTz THEN tz_localize(target_date, d.tz)
          ELSE target_date)
    ELSE (IF target_date.tz # NoTz THEN tz_localize(target_date, NoTz)
          ELSE target_date)

find_nearest_candlestick(d, target_date) ==
    LET target_ts == NormalizeTarget(d, target_date)
        idx == NearestIndexer(d, target_ts)
    IN  IndexAt(d, idx)

(***************************************************************************)
(* The Series Indicator Library (lines 80-149).  A series is a sequence of *)
(* floats.                                                                 *)
(***************************************************************************)
\* Series.ewm(span, adjust=False).mean() after k values: the running
\* weighted mean, the weight of the past, and the output so far
RECURSIVE EwmAfter(_, _, _)
EwmAfter(s, span, k) ==
    LET alpha == Frac(2, span + 1)
        old_wt_factor == FSub(Num(1), alpha)
    IN  IF k = 1
        THEN [weighted |-> s[1], old_wt |-> Num(1), out |-> <<s[1]>>]
        ELSE LET p == EwmAfter(s, span, k - 1)
                 cur == s[k]
                 wt == FMul(p.old_wt, old_wt_factor)
                 w == IF ~IsNaN(p.weighted)
                      THEN (IF IsNaN(cur) \/ cur = p.weighted THEN p.weighted
                            ELSE FDiv(FAdd(FMul(wt, p.weighted), FMul(alpha, cur)),
                                      FAdd(wt, alpha)))
                      ELSE cur
                 o == IF ~IsNaN(p.weighted)
                      THEN (IF IsNaN(cur) THEN wt ELSE Num(1))
                      ELSE p.old_wt
             IN  [weighted |-> w, old_wt |-> o, out |-> Append(p.out, w)]

\* an EMA seeded with zero instead of the first observation
calculate_ema_zero_seed(s, span) ==
    IF Len(s) = 0 THEN << >>
    ELSE Tail(EwmAfter(<<Num(0)>> \o s, span, Len(s) + 1).out)

calculate_ema(s, span) ==
    IF Len(s) = 0 THEN << >> ELSE EwmAfter(s, span, Len(s)).out

\* the window of w values ending at position k is full and holds only
\* finite values (rolling() reads an infinite value as missing)
WindowOk(s, w, k) == k >= w /\ \A j \in (k - w + 1)..k : IsFinite(s[j])

\* s[from] + ... + s[to], summed by halves
RECURSIVE FSum(_, _, _)
FSum(s, from, to) ==
    IF to < from THEN Num(0)
    ELSE IF to = from THEN s[from]
    ELSE FAdd(FSum(s, from, (from + to) \div 2), FSum(s, ((from + to) \div 2) + 1, to))

RollingMean(s, w) ==
    [k \in 1..Len(s) |->
        IF WindowOk(s, w, k) THEN FDiv(FSum(s, k - w + 1, k), Num(w)) ELSE NaN]

RollingMin(s, w) ==
    [k \in 1..Len(s) |->
        IF WindowOk(s, w, k)
        THEN SeriesMin([j \in 1..w |-> s[k - w + j]]) ELSE NaN]

RollingMax(s, w) ==
    [k \in 1..Len(s) |->
        IF WindowOk(s, w, k)
        THEN SeriesMax([j \in 1..w |-> s[k - w + j]]) ELSE NaN]

\* the variance with the divisor w (ddof = 0)
RollingVarPopulation(s, w) ==
    [k \in 1..Len(s) |->
        IF WindowOk(s, w, k)
        THEN LET m == FDiv(FSum(s, k - w + 1, k), Num(w))
                 sq == [j \in 1..w |->
                           FMul(FSub(s[k - w + j], m), FSub(s[k - w + j], m))]
             IN  FDiv(FSum(sq, 1, w), Num(w))
        ELSE NaN]

\* rolling(w).std() squared: the sum of squared deviations over w - 1
RollingVar(s, w) ==
    [k \in 1..Len(s) |->
        IF WindowOk(s, w, k)
        THEN LET m == FDiv(FSum(s, k - w + 1, k), Num(w))
                 sq == [j \in 1..w |->
                           FMul(FSub(s[k - w + j], m), FSub(s[k - w + j], m))]
             IN  FDiv(FSum(sq, 1, w), Num(w - 1))
        ELSE NaN]

\* the float mid + mult * sqrt(var), kept in this form (the root is not taken)
Band(mid, mult, var) ==
    IF IsNaN(mid) \/ IsNaN(var) THEN [mid |-> NaN, mult |-> 0, var |-> NaN]
    ELSE IF var = Num(0) THEN [mid |-> mid, mult |-> 0, var |-> Num(0)]
    ELSE [mid |-> mid, mult |-> mult, var |-> var]

calculate_bollinger_bands(s, w, std_dev) ==
    LET middle_band == RollingMean(s, w)
        var == RollingVar(s, w)
    IN  [upper |-> [k \in 1..Len(s) |-> Band(middle_band[k], std_dev, var[k])],
         middle |-> middle_band,
         lower |-> [k \in 1..Len(s) |-> Band(middle_band[k], -std_dev, var[k])]]

\* lines 137-141 with the High and Low series taken for each other
RawKSwapped(high, low, close, k_period) ==
    LET lowest_low == RollingMin(high, k_period)
        highest_high == RollingMax(low, k_period)
    IN  [k \in 1..Len(close) |->
            FMul(Num(100),
                 FDiv(FSub(close[k], lowest_low[k]),
                      FSub(highest_high[k], lowest_low[k])))]

\* lines 137-141: raw_k
RawK(high, low, close, k_period) ==
    LET lowest_low == RollingMin(low, k_period)
        highest_high == RollingMax(high, k_period)
    IN  [k \in 1..Len(close) |->
            FMul(Num(100),
                 FDiv(FSub(close[k], lowest_low[k]),
                      FSub(highest_high[k], lowest_low[k])))]

\* %D averaged from raw_k instead of the smoothed %K
calculate_stochastic_d_of_raw(high, low, close, k_period, d_period, smooth_k) ==
    LET raw_k == RawK(high, low, close, k_period)
    IN  [k |-> RollingMean(raw_k, smooth_k), d |-> RollingMean(raw_k, d_period)]

calculate_stochastic(high, low, close, k_period, d_period, smooth_k) ==
    LET raw_k == RawK(high, low, close, k_period)
        k_percent == RollingMean(raw_k, smooth_k)
        d_percent == RollingMean(k_percent, d_period)
    IN  [k |-> k_percent, d |-> d_percent]

(***************************************************************************)
(* calculate_indicators (lines 189-220).  The function works on the        *)
(* DataFrame object it is given: each df[name] = ... stores into that      *)
(* object, and line 220 returns it.  The result is the object's content    *)
(* when the call ends and how the call ended.                              *)
(***************************************************************************)
\* df[name] = values
SetCol(d, name, values) == [d EXCEPT !.cols = (name :> values) @@ d.cols]

IndicatorColumns ==
    {"BB_Upper", "BB_Middle", "BB_Lower", "EMA_13", "EMA_21", "EMA_50",
     "EMA_100", "Stoch_K", "Stoch_D"}

\* the object the caller passed in
ArgObject == "df"

NotCalled == [kind |-> "none", error |-> "", key |-> "", object |-> ""]

RaisedKeyError(name) ==
    [kind |-> "raised", error |-> "KeyError", key |-> name, object |-> ""]

ReturnedObject(obj) ==
    [kind |-> "returned", error |-> "", key |-> "", object |-> obj]

\* lines 199-211: the Bollinger and EMA columns stored into the object;
\* none of these stores changes df["Close"], which every one of them reads
WithBollingerAndEma(d) ==
    LET close == d.cols["Close"]
        bb == calculate_bollinger_bands(close, 20, 2)
    IN  [d EXCEPT !.cols =
            [c \in {"BB_Upper", "BB_Middle", "BB_Lower", "EMA_13", "EMA_21",
                    "EMA_50", "EMA_100"} |->
                IF c = "BB_Upper" THEN bb.upper
                ELSE IF c = "BB_Middle" THEN bb.middle
                ELSE IF c = "BB_Lower" THEN bb.lower
                ELSE IF c = "EMA_13" THEN calculate_ema(close, 13)
                ELSE IF c = "EMA_21" THEN calculate_ema(close, 21)
                ELSE IF c = "EMA_50" THEN calculate_ema(close, 50)
                ELSE calculate_ema(close, 100)] @@ d.cols]

\* lines 213-218
WithStochastic(d) ==
    LET st == calculate_stochastic(d.cols["High"], d.cols["Low"],
                                   d.cols["Close"], 5, 3, 3)
    IN  [d EXCEPT !.cols =
            [c \in {"Stoch_K", "Stoch_D"} |->
                IF c = "Stoch_K" THEN st.k ELSE st.d] @@ d.cols]

\* how the call ends once lines 199-211 have run: df["High"], then df["Low"]
\* are looked up (line 215), and line 220 returns the object it was given
AfterEma(d) ==
    IF "High" \notin Columns(d)
    THEN [df |-> d, outcome |-> RaisedKeyError("High")]
    ELSE IF "Low" \notin Columns(d)
    THEN [df |-> d, outcome |-> RaisedKeyError("Low")]
    ELSE [df |-> WithStochastic(d), outcome |-> ReturnedObject(ArgObject)]

\* a slip of line 208: the smoothed series stored under "Close"
calculate_indicators_overwrites_close(d) ==
    IF "Close" \notin Columns(d)
    THEN [df |-> d, outcome |-> RaisedKeyError("Close")]
    ELSE AfterEma(SetCol(WithBollingerAndEma(d), "Close",
                         calculate_ema(d.cols["Close"], 13)))

calculate_indicators(d) ==
    IF "Close" \notin Columns(d)
    THEN [df |-> d, outcome |-> RaisedKeyError("Close")]
    ELSE AfterEma(WithBollingerAndEma(d))

(***************************************************************************)
(* create_tradingview_chart (lines 223-512): the traces, and the overlay   *)
(* of halving, top and bottom lines (lines 363-483).  A label "Halving 4"  *)
(* is the pair <<"Halving", 4>>.                                           *)
(***************************************************************************)
\* lines 244-342: the columns the traces read
ChartColumns == {"Open", "High", "Low", "Close"} \cup IndicatorColumns

IndexMin(d) == CHOOSE w \in {d.index[i] : i \in 1..NBars(d)} :
                   \A i \in 1..NBars(d) : w <= d.index[i]

IndexMax(d) == CHOOSE w \in {d.index[i] : i \in 1..NBars(d)} :
                   \A i \in 1..NBars(d) : d.index[i] <= w

\* lines 366-375: both ends of the index as tz-naive timestamps
date_range_start(d) ==
    IF d.tz # NoTz THEN tz_localize(Timestamp(IndexMin(d), d.tz), NoTz)
    ELSE Timestamp(IndexMin(d), d.tz)

date_range_end(d) ==
    IF d.tz # NoTz THEN tz_localize(Timestamp(IndexMax(d), d.tz), NoTz)
    ELSE Timestamp(IndexMax(d), d.tz)

\* the test that drops a candidate whose date is a bar's date after the first
InRangeExclusiveStart(d, ts) ==
    Instant(date_range_start(d)) < Instant(ts) /\ Instant(ts) <= Instant(date_range_end(d))

\* date_range_start <= ts <= date_range_end (lines 404, 432, 460)
InRange(d, ts) ==
    Instant(date_range_start(d)) <= Instant(ts) /\ Instant(ts) <= Instant(date_range_end(d))

\* one of the three loops after k candidates: a line and a label per
\* candidate in range, at the bar find_nearest_candlestick gives
RECURSIVE OverlayAfter(_, _, _, _, _)
OverlayAfter(d, dates, label, y, k) ==
    IF k = 0 THEN [shapes |-> << >>, annotations |-> << >>]
    ELSE LET prev == OverlayAfter(d, dates, label, y, k - 1)
             ts == TimestampOf(dates[k])
             aligned_ts == find_nearest_candlestick(d, ts)
         IN  IF InRange(d, ts)
             THEN [shapes |-> Append(prev.shapes,
                                     [x0 |-> aligned_ts, x1 |-> aligned_ts]),
                   annotations |-> Append(prev.annotations,
                                          [x |-> aligned_ts, y |-> y,
                                           text |-> <<label, k>>])]
             ELSE prev

\* the overlay with the label drawn at the candidate's own date
create_tradingview_chart_unaligned(d, sig) ==
    LET price_min == SeriesMin(d.cols["Low"])
        price_max == SeriesMax(d.cols["High"])
        Raw(dates, label, y) ==
            LET I == {i \in 1..Len(dates) : InRange(d, TimestampOf(dates[i]))}
                f[k \in 0..Len(dates)] ==
                    IF k = 0 THEN << >>
                    ELSE IF k \in I
                    THEN Append(f[k - 1], [x |-> TimestampOf(dates[k]), y |-> y,
                                           text |-> <<label, k>>])
                    ELSE f[k - 1]
            IN  f[Len(dates)]
        a == Raw(sig.halvings, "Halving", price_max)
                 \o Raw(sig.top_signals, "Top", price_max)
                 \o Raw(sig.bottom_signals, "Bottom", price_min)
    IN  [shapes |-> [i \in 1..Len(a) |-> [x0 |-> a[i].x, x1 |-> a[i].x]],
         annotations |-> a]

\* the overlay with each loop's labels numbered by a count of the labels
\* the loop has emitted
create_tradingview_chart_renumbered(d, sig) ==
    LET price_min == SeriesMin(d.cols["Low"])
        price_max == SeriesMax(d.cols["High"])
        Renumbered(o) ==
            [shapes |-> o.shapes,
             annotations |-> [i \in 1..Len(o.annotations) |->
                                 [o.annotations[i] EXCEPT !.text = <<@[1], i>>]]]
        h == Renumbered(OverlayAfter(d, sig.halvings, "Halving", price_max,
                                     Len(sig.halvings)))
        t == Renumbered(OverlayAfter(d, sig.top_signals, "Top", price_max,
                                     Len(sig.top_signals)))
        b == Renumbered(OverlayAfter(d, sig.bottom_signals, "Bottom", price_min,
                                     Len(sig.bottom_signals)))
    IN  [shapes |-> h.shapes \o t.shapes \o b.shapes,
         annotations |-> h.annotations \o t.annotations \o b.annotations]

create_tradingview_chart(d, sig) ==
    LET price_min == SeriesMin(d.cols["Low"])
        price_max == SeriesMax(d.cols["High"])
        h == OverlayAfter(d, sig.halvings, "Halving", price_max, Len(sig.halvings))
        t == OverlayAfter(d, sig.top_signals, "Top", price_max, Len(sig.top_signals))
        b == OverlayAfter(d, sig.bottom_signals, "Bottom", price_min,
                          Len(sig.bottom_signals))
    IN  [shapes |-> h.shapes \o t.shapes \o b.shapes,
         annotations |-> h.annotations \o t.annotations \o b.annotations]

(***************************************************************************)
(* Inputs.  fetch_bitcoin_data (lines 19-77) returns what Yahoo Finance    *)
(* holds: a table of OHLCV bars in increasing time order.                  *)
(***************************************************************************)
SeqsUpTo(S, n) == UNION {[1..k -> S] : k \in 0..n}

Prices == {Num(v) : v \in 1..MaxPrice}

\* a table of bars: High and Low lie up and down of Close
MakeTable(index, tz, close, up, down) ==
    [index |-> index,
     tz |-> tz,
     cols |-> [c \in {"Open", "High", "Low", "Close", "Volume"} |->
                 [i \in 1..Len(index) |->
                     IF c = "High" THEN FAdd(close[i], Num(up))
                     ELSE IF c = "Low" THEN FSub(close[i], Num(down))
                     ELSE IF c = "Volume" THEN Num(1)
                     ELSE close[i]]]]

\* df.drop(columns=[name])
DropCol(d, name) ==
    [d EXCEPT !.cols = [c \in Columns(d) \ {name} |-> d.cols[c]]]

\* the bar timestamps that start at w and advance by the given steps
RECURSIVE IndexFrom(_, _)
IndexFrom(w, steps) ==
    IF Len(steps) = 0 THEN <<w>>
    ELSE <<w>> \o IndexFrom(w + Head(steps), Tail(steps))

\* bar intervals in hours: 4 hours, 1 day, 2 days (a bar missing), 1 week, 365 days
Steps == {4, 24, 48, 168, 8760}

StartDates ==
    {datetime(2012, 11, 1), datetime(2012, 11, 28), datetime(2014, 4, 29),
     datetime(2023, 1, 1), datetime(2024, 4, 19), datetime(2024, 4, 20),
     datetime(2025, 9, 18), datetime(2026, 9, 19)}

\* tables of dated bars, as the chart receives them
FetchedTables ==
    {MakeTable(IndexFrom(toordinal(s) * 24, st), tz,
               [i \in 1..(Len(st) + 1) |-> Num(10 + i)], 1, 1) :
        s \in StartDates, st \in SeqsUpTo(Steps, MaxBars - 1), tz \in {NoTz, "UTC"}}

DailyTable(close, up, down) ==
    MakeTable([i \in 1..Len(close) |-> (toordinal(datetime(2024, 4, 18)) + i) * 24],
              "UTC", close, up, down)

\* daily tables of zero or more bars with any prices, whole or with one
\* of the price columns missing
PipelineTables ==
    LET Whole == {DailyTable(c, up, down) :
                      c \in SeqsUpTo(Prices, MaxBars), up \in 0..1, down \in 0..1}
    IN  Whole \cup {DropCol(d, n) : d \in Whole, n \in {"Close", "High", "Low"}}

\* daily tables long enough for every indicator to have values: PadBars
\* bars at one price, then bars at any prices
LongTables ==
    {DailyTable([i \in 1..PadBars |-> Num(2)] \o c, up, down) :
        c \in SeqsUpTo(Prices, MaxBars), up \in 0..1, down \in 0..1}

\* tables whose bars lie at any increasing hours of 0..MaxTick, in any zone
TickTables ==
    {MakeTable(ix, tz, [i \in 1..Len(ix) |-> Num(1)], 0, 0) :
        ix \in {q \in SeqsUpTo(0..MaxTick, MaxBars) :
                   /\ Len(q) >= 1
                   /\ \A i \in 1..(Len(q) - 1) : q[i] < q[i + 1]},
        tz \in TimeZones}

NoTable == MakeTable(<< >>, NoTz, << >>, 0, 0)

NoFigure == [shapes |-> << >>, annotations |-> << >>]

NoSignals == [halvings |-> << >>, top_signals |-> << >>, bottom_signals |-> << >>]

NoTimestamp == Timestamp(0, NoTz)

\* calculate_bollinger_bands has not been called
NoBands ==
    /\ multiplier = 0
    /\ bands = [upper |-> << >>, middle |-> << >>, lower |-> << >>]

\* calculate_stochastic has not been called
NoStochastic ==
    /\ bars = [high |-> << >>, low |-> << >>, close |-> << >>]
    /\ periods = [k_period |-> 1, d_period |-> 1, smooth_k |-> 1]
    /\ stoch = [k |-> << >>, d |-> << >>]

(***************************************************************************)
(* The Dash application (lines 599-1036).  A string a callback takes apart *)
(* is a sequence of tokens ("preset-ytd.n_clicks" is <<"preset-", "ytd",   *)
(* ".", "n_clicks">>), "" is << >>.  A date, and the ISO string of a date   *)
(* that a picker holds, is a record [year, month, day]; a string that      *)
(* names no date of the calendar is such a record too.                     *)
(***************************************************************************)
\* str.replace(old, "")
Replace(str, old) == SelectSeq(str, LAMBDA t : t # old)

\* str.split(".")[0]
SplitFirst(str) ==
    LET dots == {i \in 1..Len(str) : str[i] = "."}
    IN  IF dots = {} THEN str
        ELSE SubSeq(str, 1, (CHOOSE i \in dots : \A j \in dots : i <= j) - 1)

\* the presets in the order of the layout (lines 728-808) and of the outputs
\* of update_active_button_state
PresetNames == <<"1d", "1w", "1m", "3m", "6m", "ytd", "1y", "2y", "5y", "10y">>

ButtonId(name) == <<"preset-", name>>

\* ctx.triggered when the button was clicked: one entry, its prop_id
Triggered(name) == << ButtonId(name) \o <<".", "n_clicks">> >>

\* ctx.triggered when nothing triggered the callback
NoTrigger == << >>

\* the date a picker holds when it is cleared (None)
NoDate == datetime(0, 0, 0)

\* None in a store
None == <<"None">>

PreventUpdate ==
    [kind |-> "PreventUpdate", start_date |-> NoDate, end_date |-> NoDate,
     active_preset |-> << >>]

\* lines 949-998 with the store given the button's id
update_date_range_from_preset_button_id(triggered, today) ==
    IF Len(triggered) = 0 THEN PreventUpdate
    ELSE LET button_id == SplitFirst(triggered[1])
             back == IF button_id = ButtonId("1d") THEN 1
                     ELSE IF button_id = ButtonId("1w") THEN 7
                     ELSE IF button_id = ButtonId("1m") THEN 30
                     ELSE IF button_id = ButtonId("3m") THEN 90
                     ELSE IF button_id = ButtonId("6m") THEN 180
                     ELSE IF button_id = ButtonId("1y") THEN 365
                     ELSE IF button_id = ButtonId("2y") THEN 730
                     ELSE IF button_id = ButtonId("5y") THEN 1825
                     ELSE 3650
         IN  [kind |-> "returned",
              start_date |-> IF button_id = ButtonId("ytd")
                             THEN datetime(today.year, 1, 1)
                             ELSE PlusDays(today, 0 - back),
              end_date |-> today,
              active_preset |-> button_id]

\* lines 949-998: the dates and the store value the callback returns
update_date_range_from_preset(triggered, today) ==
    IF Len(triggered) = 0 THEN PreventUpdate
    ELSE LET button_id == SplitFirst(triggered[1])
             end_date == today
             active_preset == Replace(button_id, "preset-")
             Returned(start_date) ==
                 [kind |-> "returned", start_date |-> start_date,
                  end_date |-> end_date, active_preset |-> active_preset]
         IN  IF button_id = ButtonId("1d") THEN Returned(PlusDays(today, 0 - 1))
             ELSE IF button_id = ButtonId("1w") THEN Returned(PlusDays(today, 0 - 7))
             ELSE IF button_id = ButtonId("1m") THEN Returned(PlusDays(today, 0 - 30))
             ELSE IF button_id = ButtonId("3m") THEN Returned(PlusDays(today, 0 - 90))
             ELSE IF button_id = ButtonId("6m") THEN Returned(PlusDays(today, 0 - 180))
             ELSE IF button_id = ButtonId("ytd") THEN Returned(datetime(today.year, 1, 1))
             ELSE IF button_id = ButtonId("1y") THEN Returned(PlusDays(today, 0 - 365))
             ELSE IF button_id = ButtonId("2y") THEN Returned(PlusDays(today, 0 - 730))
             ELSE IF button_id = ButtonId("5y") THEN Returned(PlusDays(today, 0 - 1825))
             ELSE IF button_id = ButtonId("10y") THEN Returned(PlusDays(today, 0 - 3650))
             ELSE PreventUpdate

\* lines 1016-1036: the className of each of the ten buttons
update_active_button_state(active_preset) ==
    LET base_class == "preset-btn"
        active_class == "preset-btn active"
        shown == IF active_preset = None THEN <<"10y">> ELSE active_preset
    IN  [i \in 1..Len(PresetNames) |->
            IF shown = <<PresetNames[i]>> THEN active_class ELSE base_class]

\* datetime.fromisoformat accepts the string: it names a date of the calendar
IsDate(str) ==
    /\ str.year \in 1..9999
    /\ str.month \in 1..12
    /\ str.day \in 1..DaysInMonth(str.year, str.month)

\* what fetch_bitcoin_data gives update_chart: an error of the network or of
\* Yahoo Finance, or the table ticker.history returned
FetchRaised(text) == [kind |-> "raised", text |-> text, df |-> NoTable]

FetchReturned(d) == [kind |-> "returned", text |-> "", df |-> d]

NotFetched == [kind |-> "none", text |-> "", df |-> NoTable]

\* go.Figure() with the title update_layout gives it
TitledFigure(title) == [title |-> title, overlay |-> NoFigure]

ChartTitle == "Bitcoin (BTC-USD) - TradingView Style Chart"

\* the ways the body of update_chart's try statement ends
ChartRaised(error, text, didFetch) ==
    [kind |-> "raised", error |-> error, text |-> text,
     figure |-> TitledFigure(""), message |-> << >>, fetched |-> didFetch]

ChartReturned(figure, message, didFetch) ==
    [kind |-> "returned", error |-> "", text |-> "",
     figure |-> figure, message |-> message, fetched |-> didFetch]

\* df.empty: no rows or no columns
IsEmpty(d) == NBars(d) = 0 \/ Columns(d) = {}

\* lines 911-917: the chart of the table calculate_indicators left, r being
\* how that call ended
ChartAfterIndicators(r) ==
    IF r.outcome.kind = "raised"
    THEN ChartRaised(r.outcome.error, r.outcome.key, TRUE)
    ELSE IF ~(ChartColumns \subseteq Columns(r.df))
    THEN ChartRaised("KeyError", CHOOSE c \in ChartColumns : c \notin Columns(r.df),
                     TRUE)
    ELSE ChartReturned([title |-> ChartTitle,
                        overlay |-> create_tradingview_chart(
                                        r.df, get_bitcoin_halving_signals)],
                       << >>, TRUE)

\* lines 868-917: the body of the try statement
UpdateChartTry(start_date, end_date, response) ==
    IF start_date # NoDate /\ ~IsDate(start_date)
    THEN ChartRaised("ValueError", "Invalid isoformat string", FALSE)
    ELSE IF end_date # NoDate /\ ~IsDate(end_date)
    THEN ChartRaised("ValueError", "Invalid isoformat string", FALSE)
    ELSE IF /\ start_date # NoDate
            /\ end_date # NoDate
            /\ toordinal(start_date) >= toordinal(end_date)
    THEN ChartReturned(TitledFigure("Error: Invalid date range"),
                       <<"Start date must be before end date.">>, FALSE)
    ELSE IF response.kind = "raised"
    THEN ChartRaised("Exception", response.text, TRUE)
    ELSE IF IsEmpty(response.df)
    THEN ChartReturned(TitledFigure("Error: No data available"),
                       <<"No data available for the selected date range.">>, TRUE)
    ELSE CHOOSE result \in {ChartAfterIndicators(r) :
                                r \in {calculate_indicators(response.df)}} : TRUE

\* update_chart with the handler of lines 919-927 returning error_message
\* as line 866 set it
update_chart_silent(start_date, end_date, response) ==
    LET t == UpdateChartTry(start_date, end_date, response)
    IN  IF t.kind = "raised"
        THEN ChartReturned(TitledFigure("Error loading chart"), << >>, t.fetched)
        ELSE t

\* lines 864-927: the pair update_chart returns
update_chart(start_date, end_date, response) ==
    LET t == UpdateChartTry(start_date, end_date, response)
    IN  IF t.kind = "raised"
        THEN ChartReturned(TitledFigure("Error loading chart"),
                           <<"Error loading data: ", t.text>>, t.fetched)
        ELSE t

\* the dates datetime.now() gives: a leap day and the turn of a year
Clock == {datetime(2024, 2, 29), datetime(2025, 12, 31), datetime(2026, 1, 1)}

\* the daily bar of 2024-04-20
YahooTable ==
    MakeTable(<<toordinal(datetime(2024, 4, 20)) * 24>>, "UTC", <<Num(2)>>, 1, 1)

\* what ticker.history returns: nothing, the bars, or bars that lack a column
YahooTables ==
    {NoTable, YahooTable, DropCol(YahooTable, "Open"), DropCol(YahooTable, "Close")}

Responses ==
    {FetchRaised(t) : t \in {"", "Connection refused"}}
        \cup {FetchReturned(d) : d \in YahooTables}

\* the dates a user can leave in a picker: none, 2026-02-30 and two days
PickerDates ==
    {NoDate, datetime(2026, 2, 30), datetime(2024, 4, 19), datetime(2024, 4, 21)}

NoChart == ChartReturned(TitledFigure(""), << >>, FALSE)

\* the application is not running
NoApp ==
    /\ now = NoDate
    /\ start_picker = NoDate
    /\ end_picker = NoDate
    /\ store = << >>
    /\ className = << >>
    /\ pending = {}
    /\ clicked = << >>
    /\ preset_result = "none"
    /\ preset_before = <<NoDate, NoDate, << >> >>
    /\ fetch = NotFetched
    /\ fetched = FALSE
    /\ chart = NoChart

(***************************************************************************)
(* Spec: a fetched table goes through calculate_indicators and then, as in *)
(* update_chart (lines 896-917), through create_tradingview_chart.         *)
(***************************************************************************)
Init ==
    /\ (df \in FetchedTables \/ df \in PipelineTables \/ df \in LongTables)
    /\ df_before = NoTable
    /\ outcome = NotCalled
    /\ calls = 0
    /\ signals = NoSignals
    /\ fig = NoFigure
    /\ target = NoTimestamp
    /\ aligned = NoTimestamp
    /\ series = << >>
    /\ period = 1
    /\ ema = << >>
    /\ NoBands
    /\ NoStochastic
    /\ NoApp
    /\ pc = "fetched"

\* calculate_indicators(df) on the caller's table (line 912)
CalculateIndicators ==
    /\ pc \in {"fetched", "calculated"}
    /\ calls < MaxCalls
    /\ LET r == calculate_indicators(df)
       IN  /\ df' = r.df
           /\ outcome' = r.outcome
           /\ pc' = IF r.outcome.kind = "returned" THEN "calculated" ELSE "failed"
    /\ df_before' = df
    /\ calls' = calls + 1
    /\ UNCHANGED <<signals, fig, target, aligned, series, period, ema>>
    /\ UNCHANGED <<bandVars, stochVars, appVars>>

\* create_tradingview_chart(df) on a table that is not empty (lines 901, 915)
CreateChart ==
    /\ pc = "calculated"
    /\ NBars(df) > 0
    /\ ChartColumns \subseteq Columns(df)
    /\ signals' = get_bitcoin_halving_signals
    /\ fig' = create_tradingview_chart(df, signals')
    /\ pc' = "charted"
    /\ UNCHANGED <<df, df_before, outcome, calls, target, aligned, series, period, ema>>
    /\ UNCHANGED <<bandVars, stochVars, appVars>>

Next == CalculateIndicators \/ CreateChart

Spec == Init /\ [][Next]_vars

(***************************************************************************)
(* SpecNearest: find_nearest_candlestick on any table of bars and any      *)
(* target.                                                                 *)
(***************************************************************************)
InitNearest ==
    /\ df \in TickTables
    /\ df_before = NoTable
    /\ outcome = NotCalled
    /\ calls = 0
    /\ signals = NoSignals
    /\ fig = NoFigure
    /\ target = NoTimestamp
    /\ aligned = NoTimestamp
    /\ series = << >>
    /\ period = 1
    /\ ema = << >>
    /\ NoBands
    /\ NoStochastic
    /\ NoApp
    /\ pc = "ready"

FindNearest ==
    /\ pc \in {"ready", "aligned"}
    /\ \E w \in (0 - 2)..(MaxTick + 2), tz \in TimeZones :
          /\ target' = Timestamp(w, tz)
          /\ aligned' = find_nearest_candlestick(df, target')
    /\ pc' = "aligned"
    /\ UNCHANGED <<df, df_before, outcome, calls, signals, fig, series, period, ema>>
    /\ UNCHANGED <<bandVars, stochVars, appVars>>

NextNearest == FindNearest

SpecNearest == InitNearest /\ [][NextNearest]_vars

(***************************************************************************)
(* SpecEma: calculate_ema on any series, missing values included, with a    *)
(* small period or one of the pipeline's.                                  *)
(***************************************************************************)
\* the periods calculate_indicators passes (lines 208-211)
PipelineSpans == {13, 21, 50, 100}

InitEma ==
    /\ df = NoTable
    /\ df_before = NoTable
    /\ outcome = NotCalled
    /\ calls = 0
    /\ signals = NoSignals
    /\ fig = NoFigure
    /\ target = NoTimestamp
    /\ aligned = NoTimestamp
    /\ series \in SeqsUpTo(Prices \cup {NaN}, MaxLen)
    /\ period \in (1..MaxSpan) \cup PipelineSpans
    /\ ema = << >>
    /\ NoBands
    /\ NoStochastic
    /\ NoApp
    /\ pc = "ready"

CalculateEma ==
    /\ pc = "ready"
    /\ ema' = calculate_ema(series, period)
    /\ pc' = "done"
    /\ UNCHANGED <<df, df_before, outcome, calls, signals, fig, target, aligned,
                   series, period>>
    /\ UNCHANGED <<bandVars, stochVars, appVars>>

NextEma == CalculateEma

SpecEma == InitEma /\ [][NextEma]_vars

(***************************************************************************)
(* SpecBands: calculate_bollinger_bands on any series of the values 10 and *)
(* 20, missing and infinite values included.                               *)
(***************************************************************************)
BandValues == {Num(10), Num(20), NaN, Inf}

\* the std_dev values passed: 2.0 is the default and the pipeline's
Multipliers == {1, 2}

InitBands ==
    /\ df = NoTable
    /\ df_before = NoTable
    /\ outcome = NotCalled
    /\ calls = 0
    /\ signals = NoSignals
    /\ fig = NoFigure
    /\ target = NoTimestamp
    /\ aligned = NoTimestamp
    /\ series \in SeqsUpTo(BandValues, MaxBandLen)
    /\ period \in 1..MaxWindow
    /\ ema = << >>
    /\ multiplier \in Multipliers
    /\ bands = [upper |-> << >>, middle |-> << >>, lower |-> << >>]
    /\ NoStochastic
    /\ NoApp
    /\ pc = "bands_ready"

CalculateBollingerBands ==
    /\ pc = "bands_ready"
    /\ bands' = calculate_bollinger_bands(series, period, multiplier)
    /\ pc' = "bands_done"
    /\ UNCHANGED <<df, df_before, outcome, calls, signals, fig, target, aligned,
                   series, period, ema, multiplier, stochVars, appVars>>

NextBands == CalculateBollingerBands

SpecBands == InitBands /\ [][NextBands]_vars

(***************************************************************************)
(* SpecStoch: calculate_stochastic on short series of any valid bars with  *)
(* small periods, on series with one value missing or infinite, and on     *)
(* longer series with the pipeline's periods 5, 3, 3.                      *)
(***************************************************************************)
StochLevels == {1, 2, 3}

\* bars <<low, close, high>> with low <= close <= high
ValidBars ==
    {<<Num(l), Num(c), Num(h)>> : l \in StochLevels, c \in StochLevels, h \in StochLevels}
        \ {b \in {<<Num(l), Num(c), Num(h)>> :
                      l \in StochLevels, c \in StochLevels, h \in StochLevels} :
               FLt(b[2], b[1]) \/ FLt(b[3], b[2])}

BarsOf(q) ==
    [low |-> [i \in 1..Len(q) |-> q[i][1]],
     close |-> [i \in 1..Len(q) |-> q[i][2]],
     high |-> [i \in 1..Len(q) |-> q[i][3]]]

\* bars <<1, 2, 3>>, one of them with one value missing or infinite
DefectiveSeries ==
    {[i \in 1..n |-> IF i = j THEN [f \in 1..3 |-> IF f = g THEN v ELSE Num(f)]
                     ELSE <<Num(1), Num(2), Num(3)>>] :
        n \in 1..MaxStochLen, j \in 1..MaxStochLen, g \in 1..3, v \in {NaN, Inf}}

\* seven bars of changing range, then bars of any prices
LongSeries ==
    {[i \in 1..7 |-> IF i % 2 = 1 THEN <<Num(1), Num(2), Num(3)>>
                     ELSE <<Num(2), Num(2), Num(3)>>] \o q :
        q \in SeqsUpTo(ValidBars, MaxStochLen)}

SmallPeriods ==
    [k_period : 1..2, d_period : 1..2, smooth_k : 1..2]

\* the periods calculate_indicators passes (lines 213-217)
PipelinePeriods == [k_period |-> 5, d_period |-> 3, smooth_k |-> 3]

InitStoch ==
    /\ df = NoTable
    /\ df_before = NoTable
    /\ outcome = NotCalled
    /\ calls = 0
    /\ signals = NoSignals
    /\ fig = NoFigure
    /\ target = NoTimestamp
    /\ aligned = NoTimestamp
    /\ series = << >>
    /\ period = 1
    /\ ema = << >>
    /\ NoBands
    /\ \/ /\ bars \in {BarsOf(q) : q \in SeqsUpTo(ValidBars, MaxStochLen) \cup DefectiveSeries}
          /\ periods \in SmallPeriods
       \/ /\ bars \in {BarsOf(q) : q \in LongSeries}
          /\ periods = PipelinePeriods
    /\ stoch = [k |-> << >>, d |-> << >>]
    /\ NoApp
    /\ pc = "stoch_ready"

CalculateStochastic ==
    /\ pc = "stoch_ready"
    /\ stoch' = calculate_stochastic(bars.high, bars.low, bars.close,
                                     periods.k_period, periods.d_period,
                                     periods.smooth_k)
    /\ pc' = "stoch_done"
    /\ UNCHANGED <<df, df_before, outcome, calls, signals, fig, target, aligned,
                   series, period, ema, bandVars, bars, periods, appVars>>

NextStoch == CalculateStochastic

SpecStoch == InitStoch /\ [][NextStoch]_vars

(***************************************************************************)
(* SpecLibrary: any one call of the Series Indicator Library.              *)
(***************************************************************************)
InitLibrary == InitEma \/ InitBands \/ InitStoch

NextLibrary == CalculateEma \/ CalculateBollingerBands \/ CalculateStochastic

SpecLibrary == InitLibrary /\ [][NextLibrary]_vars

(***************************************************************************)
(* SpecApp: the application after its layout is built (lines 614-838),     *)
(* preset buttons being clicked while Dash runs the callbacks of the       *)
(* inputs that changed.                                                    *)
(***************************************************************************)
InitApp ==
    /\ df = NoTable
    /\ df_before = NoTable
    /\ outcome = NotCalled
    /\ calls = 0
    /\ signals = NoSignals
    /\ fig = NoFigure
    /\ target = NoTimestamp
    /\ aligned = NoTimestamp
    /\ series = << >>
    /\ period = 1
    /\ ema = << >>
    /\ NoBands
    /\ NoStochastic
    /\ now \in Clock
    /\ start_picker = PlusDays(now, 0 - 3650)
    /\ end_picker = now
    /\ store = <<"10y">>
    /\ className = [i \in 1..Len(PresetNames) |-> "preset-btn"]
    /\ pending = {"update_chart", "update_active_button_state"}
    /\ clicked = << >>
    /\ preset_result = "none"
    /\ preset_before = <<NoDate, NoDate, << >> >>
    /\ fetch = NotFetched
    /\ fetched = FALSE
    /\ chart = NoChart
    /\ pc = "loaded"

\* update_date_range_from_preset, called for a click on a preset button or
\* with nothing that triggered it, once the callbacks of the last change
\* have run
UpdateDateRangeFromPreset ==
    /\ pending = {}
    /\ \E today \in Clock, i \in 0..Len(PresetNames) :
          LET triggered == IF i = 0 THEN NoTrigger ELSE Triggered(PresetNames[i])
              r == update_date_range_from_preset(triggered, today)
          IN  /\ toordinal(now) <= toordinal(today)
              /\ clicked' = IF i = 0 THEN clicked ELSE ButtonId(PresetNames[i])
              /\ preset_result' = r.kind
              /\ IF r.kind = "returned"
                 THEN /\ now' = today
                      /\ start_picker' = r.start_date
                      /\ end_picker' = r.end_date
                      /\ store' = r.active_preset
                      /\ pending' = pending \cup {"update_chart",
                                                  "update_active_button_state"}
                 ELSE UNCHANGED <<now, start_picker, end_picker, store, pending>>
    /\ preset_before' = <<start_picker, end_picker, store>>
    /\ pc' = "update_date_range_from_preset"
    /\ UNCHANGED <<df, df_before, outcome, calls, signals, fig, target, aligned,
                   series, period, ema, bandVars, stochVars, className, chartVars>>

\* update_active_button_state, run for a change of the store
UpdateActiveButtonState ==
    /\ "update_active_button_state" \in pending
    /\ className' = update_active_button_state(store)
    /\ pending' = pending \ {"update_active_button_state"}
    /\ pc' = "update_active_button_state"
    /\ UNCHANGED <<df, df_before, outcome, calls, signals, fig, target, aligned,
                   series, period, ema, bandVars, stochVars, now, start_picker,
                   end_picker, store, clicked, preset_result, preset_before,
                   chartVars>>

\* update_chart, run for a change of a picker's date or a click on Update
UpdateChart ==
    /\ "update_chart" \in pending
    /\ \E response \in Responses :
          \E r \in {update_chart(start_picker, end_picker, response)} :
              /\ chart' = r
              /\ fetched' = r.fetched
              /\ fetch' = IF r.fetched THEN response ELSE NotFetched
    /\ pending' = pending \ {"update_chart"}
    /\ pc' = "update_chart"
    /\ UNCHANGED <<df, df_before, outcome, calls, signals, fig, target, aligned,
                   series, period, ema, bandVars, stochVars, presetVars>>

NextApp == UpdateDateRangeFromPreset \/ UpdateActiveButtonState \/ UpdateChart

SpecApp == InitApp /\ [][NextApp]_vars

(***************************************************************************)
(* SpecChart: the application with dates being picked or cleared in the    *)
(* two pickers and the Update button being clicked.                        *)
(***************************************************************************)
\* the user leaves a date in one of the pickers
PickDate ==
    /\ \E d \in PickerDates :
          \/ start_picker' = d /\ UNCHANGED end_picker
          \/ end_picker' = d /\ UNCHANGED start_picker
    /\ pending' = pending \cup {"update_chart"}
    /\ pc' = "date_picked"
    /\ UNCHANGED <<df, df_before, outcome, calls, signals, fig, target, aligned,
                   series, period, ema, bandVars, stochVars, now, store, className,
                   clicked, preset_result, preset_before, chartVars>>

\* the user clicks the update-button
ClickUpdate ==
    /\ pending' = pending \cup {"update_chart"}
    /\ pc' = "update_clicked"
    /\ UNCHANGED <<df, df_before, outcome, calls, signals, fig, target, aligned,
                   series, period, ema, bandVars, stochVars, presetVars, chartVars>>

NextChart == PickDate \/ ClickUpdate \/ UpdateChart

SpecChart == InitApp /\ [][NextChart]_vars

(***************************************************************************)
(* Properties.                                                             *)
(***************************************************************************)
BarTimestamps(d) == {Timestamp(d.index[i], d.tz) : i \in 1..NBars(d)}

\* the time between a bar and the target as the index sees it
TimeBetween(bar, t) == Abs(Instant(bar) - Instant(NormalizeTarget(df, t)))

Nearest(bar, t) ==
    /\ bar \in BarTimestamps(df)
    /\ \A b \in BarTimestamps(df) : TimeBetween(bar, t) <= TimeBetween(b, t)

\* C1, as stated: find_nearest_candlestick returns a bar whose absolute time
\* difference to the target is minimal, and of two bars equally distant from
\* the target it returns the earlier.
C1_NearestTiesToEarlier ==
    pc = "aligned" =>
        /\ Nearest(aligned, target)
        /\ \A b \in BarTimestamps(df) :
              TimeBetween(b, target) = TimeBetween(aligned, target)
                  => Instant(aligned) <= Instant(b)

\* C1, amended: find_nearest_candlestick returns a bar whose absolute time
\* difference to the target is minimal, and of two bars equally distant from
\* the target it returns the later.
C1_NearestTiesToLater ==
    pc = "aligned" =>
        /\ Nearest(aligned, target)
        /\ \A b \in BarTimestamps(df) :
              TimeBetween(b, target) = TimeBetween(aligned, target)
                  => Instant(b) <= Instant(aligned)

\* a target midway between two bars, resolved to the later one
C1_Witness ==
    /\ pc = "aligned"
    /\ \E b \in BarTimestamps(df) :
          /\ Instant(b) < Instant(aligned)
          /\ TimeBetween(b, target) = TimeBetween(aligned, target)

\* C2: a target before the first bar resolves to the first bar, a target
\* after the last bar to the last bar, and a target at a bar's own instant
\* to that bar.
C2_NearestAtBoundaries ==
    pc = "aligned" =>
        LET t == Instant(NormalizeTarget(df, target))
            first == IndexAt(df, 0)
            last == IndexAt(df, NBars(df) - 1)
        IN  /\ t < Instant(first) => aligned = first
            /\ t > Instant(last) => aligned = last
            /\ \A b \in BarTimestamps(df) : t = Instant(b) => aligned = b

\* a target before the first of several bars, resolved to the first
C2_Witness ==
    /\ pc = "aligned"
    /\ NBars(df) >= 2
    /\ Instant(NormalizeTarget(df, target)) < Instant(IndexAt(df, 0))
    /\ aligned = IndexAt(df, 0)

\* C3: every annotation and every vertical line of the chart lies at the
\* timestamp of a bar of the series.
C3_OverlayOnBars ==
    pc = "charted" =>
        /\ \A i \in 1..Len(fig.annotations) :
              fig.annotations[i].x \in BarTimestamps(df)
        /\ \A i \in 1..Len(fig.shapes) :
              /\ fig.shapes[i].x0 \in BarTimestamps(df)
              /\ fig.shapes[i].x1 \in BarTimestamps(df)

\* the fourth halving is in range, no bar lies at its date, and its label
\* sits on a bar
C3_Witness ==
    /\ pc = "charted"
    /\ \A b \in BarTimestamps(df) : b.wall # TimestampOf(halving_dates[4]).wall
    /\ \E i \in 1..Len(fig.annotations) :
          /\ fig.annotations[i].text = <<"Halving", 4>>
          /\ fig.annotations[i].x \in BarTimestamps(df)

\* the candidates of the overlay: label, position in the list, date
Candidates ==
    {<<"Halving", i, halving_dates[i]>> : i \in 1..Len(halving_dates)}
        \cup {<<"Top", i, PlusDays(halving_dates[i], 518)>> : i \in 1..Len(halving_dates)}
        \cup {<<"Bottom", i, PlusDays(halving_dates[i], 883)>> : i \in 1..Len(halving_dates)}

\* the date lies in [first bar timestamp, last bar timestamp], ends included
WithinBars(date) ==
    /\ df.index[1] <= toordinal(date) * 24
    /\ toordinal(date) * 24 <= df.index[NBars(df)]

Spans(first, last) ==
    /\ df.index[1] = toordinal(first) * 24
    /\ df.index[NBars(df)] = toordinal(last) * 24

\* C4: a candidate date gets an annotation exactly when it lies within
\* [first bar timestamp, last bar timestamp] (the ends belong to the range);
\* the number of annotations is the number of candidates in range; a series
\* spanning 2023-01-01..2024-12-31 gets one annotation, of the fourth halving.
C4_AnnotationIffInRange ==
    pc = "charted" =>
        /\ \A c \in Candidates :
              (\E i \in 1..Len(fig.annotations) : fig.annotations[i].text = <<c[1], c[2]>>)
                  <=> WithinBars(c[3])
        /\ Len(fig.annotations) = Cardinality({c \in Candidates : WithinBars(c[3])})
        /\ Spans(datetime(2023, 1, 1), datetime(2024, 12, 31))
              => /\ Len(fig.annotations) = 1
                 /\ fig.annotations[1].text = <<"Halving", 4>>

\* the chart of a series spanning 2023-01-01..2024-12-31
C4_Witness ==
    /\ pc = "charted"
    /\ Spans(datetime(2023, 1, 1), datetime(2024, 12, 31))
    /\ Len(fig.annotations) = 1

\* an object the call would have allocated
NewObject == "copy"

\* C5, as stated: calculate_indicators leaves the caller's table as it was
\* and returns a freshly produced table.
C5_CallerTableUntouched ==
    calls > 0 =>
        /\ df = df_before
        /\ outcome.kind = "returned" => outcome.object = NewObject

\* C6, as stated: with the Close column absent or empty, calculate_indicators
\* fails and returns no result (any raised error is counted as the failure).
C6_FailsOnAbsentOrEmptyClose ==
    (/\ calls > 0
     /\ \/ "Close" \notin Columns(df_before)
        \/ Len(df_before.cols["Close"]) = 0)
        => outcome.kind = "raised"

\* C7, as stated: when calculate_indicators fails for a missing price column,
\* the caller's table carries none of the indicator columns.
C7_NoPartialColumnsOnFailure ==
    outcome.kind = "raised" => Columns(df) \cap IndicatorColumns = {}

\* C8: a second run of calculate_indicators, on the result of the first,
\* leaves every indicator column with the values the first run gave it.
C8_SecondRunSameColumns ==
    (calls >= 2 /\ outcome.kind = "returned") =>
        \A c \in IndicatorColumns : df.cols[c] = df_before.cols[c]

\* a second run over bars at which every indicator has a value and the
\* bands, the EMA and the oscillator are not flat
C8_Witness ==
    /\ calls = 2
    /\ outcome.kind = "returned"
    /\ NBars(df) > 20
    /\ df.cols["EMA_13"][NBars(df)] # df.cols["Close"][NBars(df)]
    /\ df.cols["BB_Upper"][NBars(df)].mult # 0
    /\ IsFinite(df.cols["Stoch_D"][NBars(df)])
    /\ df.cols["Stoch_D"][NBars(df)] # df.cols["Stoch_K"][NBars(df)]
    /\ \A c \in IndicatorColumns : df.cols[c] = df_before.cols[c]

IncreasingDates(s) ==
    \A i, j \in 1..Len(s) : i < j => toordinal(s[i]) < toordinal(s[j])

\* C9: get_bitcoin_halving_signals returns three sequences of length 4 in
\* increasing date order, the halvings 2012-11-28, 2016-07-09, 2020-05-11,
\* 2024-04-20, each top signal 518 days and each bottom signal 883 days
\* after its halving; it returns the same on every call.
C9_SignalsFromHalvings ==
    pc = "charted" =>
        /\ signals.halvings = << datetime(2012, 11, 28), datetime(2016, 7, 9),
                                 datetime(2020, 5, 11), datetime(2024, 4, 20) >>
        /\ Len(signals.top_signals) = 4
        /\ Len(signals.bottom_signals) = 4
        /\ \A i \in 1..4 :
              /\ toordinal(signals.top_signals[i]) = toordinal(signals.halvings[i]) + 518
              /\ toordinal(signals.bottom_signals[i]) = toordinal(signals.halvings[i]) + 883
              /\ signals.top_signals[i].day \in 1..DaysInMonth(signals.top_signals[i].year,
                                                               signals.top_signals[i].month)
              /\ signals.bottom_signals[i].day \in 1..DaysInMonth(signals.bottom_signals[i].year,
                                                                  signals.bottom_signals[i].month)
        /\ IncreasingDates(signals.halvings)
        /\ IncreasingDates(signals.top_signals)
        /\ IncreasingDates(signals.bottom_signals)

\* a call has returned, with the first top signal on 2014-04-30
C9_Witness ==
    /\ pc = "charted"
    /\ signals.top_signals[1] = datetime(2014, 4, 30)

AllFinite(s) == \A i \in 1..Len(s) : IsFinite(s[i])

StrictlyIncreasing(s) == \A i \in 1..(Len(s) - 1) : FLt(s[i], s[i + 1])

\* C10: for a series of N >= 1 values, calculate_ema returns N values, none
\* undefined, with ema[0] = series[0] and
\* ema[i] = a * series[i] + (1 - a) * ema[i-1], a = 2 / (span + 1) (stated
\* here multiplied by span + 1); for a strictly increasing series the output
\* is strictly increasing.
C10_EmaRecurrence ==
    (pc = "done" /\ Len(series) >= 1 /\ AllFinite(series)) =>
        /\ Len(ema) = Len(series)
        /\ AllFinite(ema)
        /\ ema[1] = series[1]
        /\ \A i \in 2..Len(series) :
              FMul(Num(period + 1), ema[i])
                  = FAdd(FMul(Num(2), series[i]), FMul(Num(period - 1), ema[i - 1]))
        /\ StrictlyIncreasing(series) => StrictlyIncreasing(ema)

\* the EMA of a strictly increasing series of several values, with a < 1
C10_Witness ==
    /\ pc = "done"
    /\ Len(series) >= 3
    /\ AllFinite(series)
    /\ StrictlyIncreasing(series)
    /\ period >= 2
    /\ ema[2] # series[2]

\* sgn * sqrt(r) > a and sgn * sqrt(r) < a, for a fraction r >= 0
RootGt(sgn, r, a) ==
    IF sgn >= 0 THEN FLt(a, Num(0)) \/ FLt(FMul(a, a), r)
    ELSE FLt(a, Num(0)) /\ FLt(r, FMul(a, a))

RootLt(sgn, r, a) ==
    IF sgn >= 0 THEN FLt(Num(0), a) /\ FLt(r, FMul(a, a))
    ELSE FLt(Num(0), a) \/ FLt(FMul(a, a), r)

\* the band value mid + mult * sqrt(var) lies within 0.005 of cents / 100
BandAbout(b, cents) ==
    LET r == FMul(Num(b.mult * b.mult), b.var)
    IN  /\ IsFinite(b.mid)
        /\ RootGt(Sign(b.mult), r, FSub(Frac(cents * 10 - 5, 1000), b.mid))
        /\ RootLt(Sign(b.mult), r, FSub(Frac(cents * 10 + 5, 1000), b.mid))

BandUndefined(b) == IsNaN(b.mid)

\* the sum and the sum of squares of the w values of s that end at k
WindowSum(s, w, k) == FSum(s, k - w + 1, k)

WindowSumSq(s, w, k) == FSum([j \in 1..Len(s) |-> FMul(s[j], s[j])], k - w + 1, k)

\* var is the sum of squared deviations of the window over divisor:
\* divisor * w * var = w * sum(x^2) - sum(x)^2
VarianceWith(divisor, s, w, k, var) ==
    FMul(Num(divisor * w), var)
        = FSub(FMul(Num(w), WindowSumSq(s, w, k)),
               FMul(WindowSum(s, w, k), WindowSum(s, w, k)))

ExampleSeries == <<Num(10), Num(10), Num(10), Num(20), Num(10)>>

\* what C11 says of every call but the divisor and the numbers that follow
\* from it: the middle band is the mean of the window, the bands lie
\* mult * stddev up and down of it, and all three are undefined before
\* position window - 1
BandsAroundMean(divisor) ==
    /\ Len(bands.upper) = Len(series)
    /\ Len(bands.middle) = Len(series)
    /\ Len(bands.lower) = Len(series)
    /\ \A k \in 1..Len(series) :
          /\ k < period =>
                /\ IsNaN(bands.middle[k])
                /\ BandUndefined(bands.upper[k])
                /\ BandUndefined(bands.lower[k])
          /\ (period >= 2 /\ WindowOk(series, period, k)) =>
                /\ FMul(Num(period), bands.middle[k]) = WindowSum(series, period, k)
                /\ bands.upper[k].mid = bands.middle[k]
                /\ bands.lower[k].mid = bands.middle[k]
                /\ VarianceWith(divisor, series, period, k, bands.upper[k].var)
                /\ bands.lower[k].var = bands.upper[k].var
                /\ bands.upper[k].var # Num(0) =>
                      /\ bands.upper[k].mult = multiplier
                      /\ bands.lower[k].mult = -multiplier

\* C11, as stated: calculate_bollinger_bands uses the population standard
\* deviation (divisor = window); over [10,10,10,20,10] with window 3 and
\* multiplier 2 the window at position 3 has mean 40/3 and variance 200/9,
\* upper about 22.76 and lower about 3.90; positions before window - 1 are
\* undefined in all three bands.
C11_PopulationStdDev ==
    pc = "bands_done" =>
        /\ BandsAroundMean(period)
        /\ (series = ExampleSeries /\ period = 3 /\ multiplier = 2) =>
              /\ bands.middle[4] = Frac(40, 3)
              /\ bands.upper[4].var = Frac(200, 9)
              /\ BandAbout(bands.upper[4], 2276)
              /\ BandAbout(bands.lower[4], 390)

\* C11, amended: calculate_bollinger_bands uses the sample standard
\* deviation (divisor = window - 1); over [10,10,10,20,10] with window 3 and
\* multiplier 2 the window at position 3 has mean 40/3 and variance 100/3,
\* upper about 24.88 and lower about 1.79; positions before window - 1 are
\* undefined in all three bands.
C11_SampleStdDev ==
    pc = "bands_done" =>
        /\ BandsAroundMean(period - 1)
        /\ (series = ExampleSeries /\ period = 3 /\ multiplier = 2) =>
              /\ bands.middle[4] = Frac(40, 3)
              /\ bands.upper[4].var = Frac(100, 3)
              /\ BandAbout(bands.upper[4], 2488)
              /\ BandAbout(bands.lower[4], 179)

\* the bands of [10,10,10,20,10] with window 3 and multiplier 2
C11_Witness ==
    /\ pc = "bands_done"
    /\ series = ExampleSeries
    /\ period = 3
    /\ multiplier = 2
    /\ BandUndefined(bands.upper[2])
    /\ bands.upper[3] = [mid |-> Num(10), mult |-> 0, var |-> Num(0)]
    /\ bands.upper[4].mult = 2

\* every bar has finite prices with low <= close <= high
ValidInput ==
    \A i \in 1..Len(bars.close) :
        /\ IsFinite(bars.low[i]) /\ IsFinite(bars.close[i]) /\ IsFinite(bars.high[i])
        /\ ~FLt(bars.close[i], bars.low[i])
        /\ ~FLt(bars.high[i], bars.close[i])

\* the window of k_period bars ending at i is full and its highest high
\* equals its lowest low
FlatWindow(i) ==
    /\ i >= periods.k_period
    /\ SeriesMax(SubSeq(bars.high, i - periods.k_period + 1, i))
           = SeriesMin(SubSeq(bars.low, i - periods.k_period + 1, i))

UndefinedOrPercent(x) ==
    IsNaN(x) \/ (IsFinite(x) /\ ~FLt(x, Num(0)) /\ ~FLt(Num(100), x))

\* C12: for every input where each bar satisfies low <= close <= high, every
\* value of %K and %D is undefined or within [0, 100]; a window whose highest
\* high equals its lowest low yields an undefined raw value, never an
\* infinite one.
C12_StochasticWithinPercent ==
    (pc = "stoch_done" /\ ValidInput) =>
        LET raw == RawK(bars.high, bars.low, bars.close, periods.k_period)
        IN  /\ \A i \in 1..Len(stoch.k) : UndefinedOrPercent(stoch.k[i])
            /\ \A i \in 1..Len(stoch.d) : UndefinedOrPercent(stoch.d[i])
            /\ \A i \in 1..Len(raw) :
                  /\ UndefinedOrPercent(raw[i])
                  /\ FlatWindow(i) => IsNaN(raw[i])

\* valid bars with a flat window after which %K has a value again
C12_Witness ==
    /\ pc = "stoch_done"
    /\ ValidInput
    /\ \E i \in 1..Len(stoch.k) :
          /\ FlatWindow(i)
          /\ IsNaN(stoch.k[i])
          /\ \E j \in (i + 1)..Len(stoch.k) :
                IsFinite(stoch.k[j]) /\ stoch.k[j] # Num(0) /\ stoch.k[j] # Num(100)

\* every input value is finite and no full window of k_period bars is flat
DefinedAndNotFlat ==
    /\ \A i \in 1..Len(bars.close) :
          IsFinite(bars.low[i]) /\ IsFinite(bars.close[i]) /\ IsFinite(bars.high[i])
    /\ \A i \in 1..Len(bars.close) : ~FlatWindow(i)

\* C15: with fully defined inputs and no flat window, exactly the first
\* k_period + smooth_k + d_period - 3 entries of %D and exactly the first
\* k_period + smooth_k - 2 entries of %K are undefined (8 entries of %D for
\* the periods 5, 3, 3); a shorter series gives an all-undefined output.
C15_StochasticRampUp ==
    (pc = "stoch_done" /\ DefinedAndNotFlat) =>
        /\ Len(stoch.k) = Len(bars.close)
        /\ Len(stoch.d) = Len(bars.close)
        /\ \A i \in 1..Len(bars.close) :
              /\ IsNaN(stoch.d[i])
                    <=> i <= periods.k_period + periods.smooth_k + periods.d_period - 3
              /\ ~IsNaN(stoch.d[i]) => IsFinite(stoch.d[i])
              /\ IsNaN(stoch.k[i]) <=> i <= periods.k_period + periods.smooth_k - 2
              /\ ~IsNaN(stoch.k[i]) => IsFinite(stoch.k[i])
        /\ periods = PipelinePeriods =>
              \A i \in 1..Len(bars.close) : IsNaN(stoch.d[i]) <=> i <= 8

\* the periods 5, 3, 3 over more than eight bars: %D starts at the ninth
C15_Witness ==
    /\ pc = "stoch_done"
    /\ DefinedAndNotFlat
    /\ periods = PipelinePeriods
    /\ Len(stoch.d) > 9
    /\ IsNaN(stoch.d[8])
    /\ IsFinite(stoch.d[9])
    /\ IsNaN(stoch.k[6])
    /\ IsFinite(stoch.k[7])

\* s has a missing or non-finite value at one of the positions from..to
MissingIn(s, from, to) ==
    \E j \in 1..Len(s) : from <= j /\ j <= to /\ ~IsFinite(s[j])

\* the EMA at i is computed from the values at 1..i
EmaPropagatesMissing ==
    \A i \in 1..Len(series) : MissingIn(series, 1, i) => IsNaN(ema[i])

\* the bands at i are computed from the last `period` values
BandsPropagateMissing ==
    \A i \in 1..Len(series) :
        MissingIn(series, i - period + 1, i) =>
            /\ IsNaN(bands.middle[i])
            /\ BandUndefined(bands.upper[i])
            /\ BandUndefined(bands.lower[i])

\* %K at i is the mean of smooth_k raw values, each computed from its close
\* and from k_period highs and lows; %D at i is the mean of d_period of those
StochasticPropagatesMissing ==
    LET ks == periods.k_period + periods.smooth_k - 2
        cs == periods.smooth_k - 1
        dd == periods.d_period - 1
    IN  \A i \in 1..Len(bars.close) :
            /\ (\/ MissingIn(bars.high, i - ks, i)
                \/ MissingIn(bars.low, i - ks, i)
                \/ MissingIn(bars.close, i - cs, i)) => IsNaN(stoch.k[i])
            /\ (\/ MissingIn(bars.high, i - ks - dd, i)
                \/ MissingIn(bars.low, i - ks - dd, i)
                \/ MissingIn(bars.close, i - cs - dd, i)) => IsNaN(stoch.d[i])

\* C16, as stated: a missing or non-finite input value at position j makes
\* the output of each of the three indicators undefined at every position
\* whose computation window includes j; none carries a previous output
\* forward over it.
C16_MissingValuesPropagate ==
    /\ pc = "done" => EmaPropagatesMissing
    /\ pc = "bands_done" => BandsPropagateMissing
    /\ pc = "stoch_done" => StochasticPropagatesMissing

\* C17, as stated: the top and bottom signal dates derived from the halving
\* 2024-04-20 are 2025-09-20 and 2026-08-21.
C17_SignalsOf2024AsStated ==
    pc = "charted" =>
        /\ signals.halvings[4] = datetime(2024, 4, 20)
        /\ signals.top_signals[4] = datetime(2025, 9, 20)
        /\ signals.bottom_signals[4] = datetime(2026, 8, 21)

\* C17, amended: the top and bottom signal dates derived from the halving
\* 2024-04-20 are 2025-09-20 and 2026-09-20.
C17_SignalsOf2024 ==
    pc = "charted" =>
        /\ signals.halvings[4] = datetime(2024, 4, 20)
        /\ signals.top_signals[4] = datetime(2025, 9, 20)
        /\ signals.bottom_signals[4] = datetime(2026, 9, 20)

\* a call has returned the signals of the fourth halving, 883 days apart
\* from it at the bottom
C17_Witness ==
    /\ pc = "charted"
    /\ Len(signals.bottom_signals) = 4
    /\ toordinal(signals.bottom_signals[4]) - toordinal(signals.halvings[4]) = 883

\* days from a halving to the date a label of this kind marks
DaysAfterHalving(label) ==
    IF label = "Top" THEN 518 ELSE IF label = "Bottom" THEN 883 ELSE 0

Labelled(label, n) ==
    \E i \in 1..Len(fig.annotations) : fig.annotations[i].text = <<label, n>>

\* C14: the number n of an emitted label "Halving n", "Top n" or "Bottom n"
\* is the 1-based position of its halving in the fixed list of four dates,
\* whichever candidates are in range: the label sits on the bar nearest to
\* the date that halving n gives, and when the 2024-04-20 halving is the
\* only halving in range its label is "Halving 4".
C14_LabelNumbersHalving ==
    pc = "charted" =>
        /\ \A i \in 1..Len(fig.annotations) :
              LET label == fig.annotations[i].text[1]
                  n == fig.annotations[i].text[2]
              IN  /\ label \in {"Halving", "Top", "Bottom"}
                  /\ n \in 1..Len(halving_dates)
                  /\ WithinBars(PlusDays(halving_dates[n], DaysAfterHalving(label)))
                  /\ Nearest(fig.annotations[i].x,
                             TimestampOf(PlusDays(halving_dates[n],
                                                  DaysAfterHalving(label))))
        /\ (/\ WithinBars(halving_dates[4])
            /\ \A n \in 1..3 : ~WithinBars(halving_dates[n]))
              => /\ Labelled("Halving", 4)
                 /\ \A n \in 1..3 : ~Labelled("Halving", n)

\* only the fourth halving is in range, and its top signal with it: the
\* first labels of their kinds are "Halving 4" and "Top 4"
C14_Witness ==
    /\ pc = "charted"
    /\ \A n \in 1..3 : ~WithinBars(halving_dates[n])
    /\ Labelled("Halving", 4)
    /\ Labelled("Top", 4)
    /\ \A n \in 1..3 : ~Labelled("Top", n)

\* the message shows no text
EmptyMessage(m) == \A i \in 1..Len(m) : m[i] = ""

\* fetching, the indicator computation or the chart creation fails on what
\* fetch_bitcoin_data gave
FailedOn(response) ==
    \/ response.kind = "raised"
    \/ /\ response.kind = "returned"
       /\ ~IsEmpty(response.df)
       /\ \/ {"Close", "High", "Low"} \ Columns(response.df) # {}
          \/ {"Open"} \ Columns(response.df) # {}

\* the figure is the chart of the fetched bars with their indicators
BuiltFrom(response, figure) ==
    /\ response.kind = "returned"
    /\ ~IsEmpty(response.df)
    /\ ~FailedOn(response)
    /\ figure.title = ChartTitle
    /\ Len(figure.overlay.annotations) = 1
    /\ figure.overlay.annotations[1].text = <<"Halving", 4>>

InvalidRange ==
    /\ IsDate(start_picker)
    /\ IsDate(end_picker)
    /\ toordinal(start_picker) >= toordinal(end_picker)

\* C13: update_chart never propagates a failure: whatever its inputs and
\* whichever of fetching, indicator computation and chart creation fails, it
\* returns a (figure, message) pair with a message that is not empty; the
\* message is empty only when the chart was built; with start >= end it
\* returns before any data is fetched.
C13_UpdateChartReportsFailures ==
    pc = "update_chart" =>
        /\ chart.kind = "returned"
        /\ (fetched /\ FailedOn(fetch)) => ~EmptyMessage(chart.message)
        /\ ~fetched => ~EmptyMessage(chart.message)
        /\ EmptyMessage(chart.message) => fetched /\ BuiltFrom(fetch, chart.figure)
        /\ InvalidRange =>
              /\ ~fetched
              /\ fetch = NotFetched
              /\ chart.message = <<"Start date must be before end date.">>

\* fetch_bitcoin_data raised an error that has no text, and the message
\* update_chart returned is not empty
C13_Witness ==
    /\ pc = "update_chart"
    /\ fetched
    /\ fetch = FetchRaised("")
    /\ chart.kind = "returned"
    /\ chart.message = <<"Error loading data: ", "">>

ActiveButtons == {i \in 1..Len(className) : className[i] = "preset-btn active"}

\* C18: the active-preset store holds the name of the preset clicked last
\* ("10y" before any click); once update_active_button_state has run for
\* the store's value, exactly one of the ten buttons has the active class,
\* that preset's; a call of update_date_range_from_preset that no button
\* triggered changes neither the dates nor the store.
C18_ActivePresetFollowsClicks ==
    /\ clicked = << >> => store = <<"10y">>
    /\ clicked # << >> =>
          \E i \in 1..Len(PresetNames) :
              store = <<PresetNames[i]>> /\ clicked = ButtonId(PresetNames[i])
    /\ "update_active_button_state" \notin pending =>
          /\ Len(className) = 10
          /\ Cardinality(ActiveButtons) = 1
          /\ \A i \in ActiveButtons : store = <<PresetNames[i]>>
    /\ (pc = "update_date_range_from_preset" /\ preset_result = "PreventUpdate") =>
          <<start_picker, end_picker, store>> = preset_before

\* after clicks on two presets, the second being YTD, its button alone is
\* active
C18_Witness ==
    /\ clicked = ButtonId("ytd")
    /\ preset_before[3] \notin {<<"10y">>, <<"ytd">>}
    /\ store = <<"ytd">>
    /\ "update_active_button_state" \notin pending
    /\ ActiveButtons = {6}

\* C19, as stated: the range update_date_range_from_preset writes has its
\* start date strictly before its end date, for every preset and every
\* current date, and the chart update that follows never ends in the
\* message "Start date must be before end date.".
C19_PresetRangeNeverInvalid ==
    /\ (pc = "update_date_range_from_preset" /\ preset_result = "returned") =>
          toordinal(start_picker) < toordinal(end_picker)
    /\ (pc = "update_chart" /\ clicked # << >>) =>
          chart.message # <<"Start date must be before end date.">>

=============================================================================
